---------------------------- MODULE Spec2Model ----------------------------
(***************************************************************************)
(* The roll engine of the porygon Discord bot (src/bot.py): the dice       *)
(* expression grammar ROLL_RE, parse_and_roll (validation, sampling,       *)
(* aggregation, formatting) and the three senders that post the result     *)
(* (roll_cmd, roll_slash, _handle_roll with _send_roll_to_channel).         *)
(*                                                                         *)
(* Text is modelled by TLA+ strings.  A TLA+ string cannot hold the        *)
(* backquote, so BQ stands for it; the two non-ASCII letters of the error  *)
(* messages are written in ASCII.                                          *)
(***************************************************************************)
EXTENDS Integers, Sequences, FiniteSets, TLC

(***************************************************************************)
(* Python's string operations, as the code uses them.                      *)
(***************************************************************************)
BQ == "'"

MinOf(S) == CHOOSE x \in S : \A y \in S : x <= y

\* s[i] of Python is Ch(s, i + 1)
Ch(s, i) == SubSeq(s, i, i)

\* s[a:b], 0 <= a, 0 <= b
Slice(s, a, b) ==
    LET e == IF b < Len(s) THEN b ELSE Len(s)
    IN  IF a < e THEN SubSeq(s, a + 1, e) ELSE ""

\* s[a:]
SliceFrom(s, a) == Slice(s, a, Len(s))

\* The first index i >= from (counted from 1) where sub occurs in s; 0 if none.
FindFrom(s, sub, from) ==
    LET hits == {i \in from..(Len(s) - Len(sub) + 1) :
                    SubSeq(s, i, i + Len(sub) - 1) = sub}
    IN  IF hits = {} THEN 0 ELSE MinOf(hits)

Find(s, sub) == FindFrom(s, sub, 1)

\* s.split(sep)[0]
SplitFirst(s, sep) ==
    LET p == Find(s, sep)
    IN  IF p = 0 THEN s ELSE Slice(s, 0, p - 1)

\* len(s.split(sep)) > 1, that is s.split(sep)[1] does not raise IndexError
SplitHasSecond(s, sep) == Find(s, sep) # 0

\* s.split(sep)[1], for a string where sep occurs
SplitSecond(s, sep) ==
    LET p == Find(s, sep)
        q == FindFrom(s, sep, p + Len(sep))
    IN  IF q = 0 THEN SliceFrom(s, p + Len(sep) - 1)
                 ELSE Slice(s, p + Len(sep) - 1, q - 1)

\* s.replace(old, "")
RECURSIVE Remove(_, _)
Remove(s, old) ==
    LET p == Find(s, old)
    IN  IF p = 0 THEN s
        ELSE Slice(s, 0, p - 1) \o Remove(SliceFrom(s, p + Len(old) - 1), old)

Digits == "0123456789"

IsDigit(c) == \E d \in 1..10 : Ch(Digits, d) = c

DigitValue(c) == (CHOOSE d \in 1..10 : Ch(Digits, d) = c) - 1

\* int(s) for a string of decimal digits
RECURSIVE int(_)
int(s) ==
    IF Len(s) = 0 THEN 0
    ELSE 10 * int(Slice(s, 0, Len(s) - 1)) + DigitValue(Ch(s, Len(s)))

\* str(i) for an integer i
RECURSIVE StrNat(_)
StrNat(i) ==
    IF i < 10 THEN Ch(Digits, i + 1)
    ELSE StrNat(i \div 10) \o Ch(Digits, (i % 10) + 1)

str(i) == IF i < 0 THEN "-" \o StrNat(-i) ELSE StrNat(i)

\* ', '.join(map(str, xs[lo..hi]))
RECURSIVE JoinRange(_, _, _)
JoinRange(xs, lo, hi) ==
    IF lo > hi THEN ""
    ELSE IF lo = hi THEN str(xs[lo])
    ELSE LET mid == (lo + hi) \div 2
         IN  JoinRange(xs, lo, mid) \o ", " \o JoinRange(xs, mid + 1, hi)

Join(xs) == JoinRange(xs, 1, Len(xs))

\* sum(xs[lo..hi])
RECURSIVE SumRange(_, _, _)
SumRange(xs, lo, hi) ==
    IF lo > hi THEN 0
    ELSE IF lo = hi THEN xs[lo]
    ELSE LET mid == (lo + hi) \div 2
         IN  SumRange(xs, lo, mid) + SumRange(xs, mid + 1, hi)

Sum(xs) == SumRange(xs, 1, Len(xs))

(***************************************************************************)
(* ROLL_RE: ^\s*(\d{1,4})[dD](\d{1,5})(?:\s*([+\-])\s*(\d{1,6}))?\s*$       *)
(* Every group is followed by a character its class excludes, so the       *)
(* match is the left-to-right scan taking each run whole.                  *)
(***************************************************************************)
IsSpace(c) == c \in {" ", "\t", "\n", "\r", "\f"}

\* The first index >= i that is past the end of s or holds no white space.
SkipSpace(s, i) ==
    MinOf({j \in i..(Len(s) + 1) : j = Len(s) + 1 \/ ~IsSpace(Ch(s, j))})

\* The first index >= i that is past the end of s or holds no digit.
SkipDigits(s, i) ==
    MinOf({j \in i..(Len(s) + 1) : j = Len(s) + 1 \/ ~IsDigit(Ch(s, j))})

NoMatch == [matched |-> FALSE, n |-> "", sides |-> "", op |-> "", mod |-> ""]

\* ROLL_RE with \s* written around [dD]: "3 d 6" would match.
ROLL_RE_spaced(expr) ==
    LET len == Len(expr)
        n0  == SkipSpace(expr, 1)
        n1  == SkipDigits(expr, n0)
        d0  == SkipSpace(expr, n1)
        s0  == SkipSpace(expr, d0 + 1)
        s1  == SkipDigits(expr, s0)
        e0  == SkipSpace(expr, s1)
        m0  == SkipSpace(expr, e0 + 1)
        m1  == SkipDigits(expr, m0)
        e1  == SkipSpace(expr, m1)
    IN  IF \/ n1 - n0 < 1 \/ n1 - n0 > 4
           \/ d0 > len
           \/ Ch(expr, d0) \notin {"d", "D"}
           \/ s1 - s0 < 1 \/ s1 - s0 > 5
        THEN NoMatch
        ELSE IF e0 > len
        THEN [matched |-> TRUE, n |-> SubSeq(expr, n0, n1 - 1),
              sides |-> SubSeq(expr, s0, s1 - 1), op |-> "", mod |-> ""]
        ELSE IF \/ Ch(expr, e0) \notin {"+", "-"}
                \/ m1 - m0 < 1 \/ m1 - m0 > 6
                \/ e1 <= len
        THEN NoMatch
        ELSE [matched |-> TRUE, n |-> SubSeq(expr, n0, n1 - 1),
              sides |-> SubSeq(expr, s0, s1 - 1),
              op |-> Ch(expr, e0), mod |-> SubSeq(expr, m0, m1 - 1)]

\* ROLL_RE.match(expr): the groups, "" for a group that did not take part.
ROLL_RE(expr) ==
    LET len == Len(expr)
        n0  == SkipSpace(expr, 1)
        n1  == SkipDigits(expr, n0)
        s1  == SkipDigits(expr, n1 + 1)
        e0  == SkipSpace(expr, s1)
        m0  == SkipSpace(expr, e0 + 1)
        m1  == SkipDigits(expr, m0)
        e1  == SkipSpace(expr, m1)
    IN  IF \/ n1 - n0 < 1 \/ n1 - n0 > 4
           \/ n1 > len
           \/ Ch(expr, n1) \notin {"d", "D"}
           \/ s1 - (n1 + 1) < 1 \/ s1 - (n1 + 1) > 5
        THEN NoMatch
        ELSE IF e0 > len
        THEN [matched |-> TRUE, n |-> SubSeq(expr, n0, n1 - 1),
              sides |-> SubSeq(expr, n1 + 1, s1 - 1), op |-> "", mod |-> ""]
        ELSE IF \/ Ch(expr, e0) \notin {"+", "-"}
                \/ m1 - m0 < 1 \/ m1 - m0 > 6
                \/ e1 <= len
        THEN NoMatch
        ELSE [matched |-> TRUE, n |-> SubSeq(expr, n0, n1 - 1),
              sides |-> SubSeq(expr, n1 + 1, s1 - 1),
              op |-> Ch(expr, e0), mod |-> SubSeq(expr, m0, m1 - 1)]

MAX_DICE == 500
MAX_SIDES == 1000


(***************************************************************************)
(* parse_and_roll                                                          *)
(***************************************************************************)
ErrFormat ==
    "Formato invalido. Usa algo como " \o BQ \o "6d6 + 2" \o BQ
        \o " ou " \o BQ \o "3d20" \o BQ \o "."

ErrDice == "Quantidade de dados invalida (1-" \o str(MAX_DICE) \o ")."

ErrSides == "Lados invalidos (2-" \o str(MAX_SIDES) \o ")."

\* The two range checks in the other order.
ValueError_sides_first(expr) ==
    LET m == ROLL_RE(expr)
    IN  IF ~m.matched THEN ErrFormat
        ELSE IF int(m.sides) < 2 \/ int(m.sides) > MAX_SIDES THEN ErrSides
        ELSE IF int(m.n) < 1 \/ int(m.n) > MAX_DICE THEN ErrDice
        ELSE ""

\* The message of the ValueError parse_and_roll raises on expr; "" if none.
ValueError(expr) ==
    LET m == ROLL_RE(expr)
    IN  IF ~m.matched THEN ErrFormat
        ELSE IF int(m.n) < 1 \/ int(m.n) > MAX_DICE THEN ErrDice
        ELSE IF int(m.sides) < 2 \/ int(m.sides) > MAX_SIDES THEN ErrSides
        ELSE ""

\* The "-" branch adding like the "+" branch.
Total_adds(subtotal, op, mod) ==
    IF op # "" THEN subtotal + mod ELSE subtotal

\* total = subtotal, then += mod for "+", -= mod for "-"
Total(subtotal, op, mod) ==
    IF op = "+" THEN subtotal + mod
    ELSE IF op = "-" THEN subtotal - mod
    ELSE subtotal

\* "if op:" for "if op and mod:": a zero modifier is displayed.
SpecText_op_only(n, sides, op, mod) ==
    str(n) \o "d" \o str(sides)
        \o (IF op # "" THEN " " \o op \o " " \o str(mod) ELSE "")

\* spec = f"{n}d{sides}", and if op and mod: spec += f" {op} {mod}"
SpecText(n, sides, op, mod) ==
    str(n) \o "d" \o str(sides)
        \o (IF op # "" /\ mod # 0 THEN " " \o op \o " " \o str(mod) ELSE "")

spec_block(n, sides, op, mod) ==
    BQ \o "[" \o SpecText(n, sides, op, mod) \o "]" \o BQ

rolls_block(rolls) == BQ \o "[" \o Join(rolls) \o "]" \o BQ

Message(n, sides, op, mod, rolls) ==
    spec_block(n, sides, op, mod) \o " Rolagem: " \o rolls_block(rolls)
        \o " Resultado: " \o str(Total(Sum(rolls), op, mod))

NoRoll ==
    [error |-> "", n |-> 0, sides |-> 0, op |-> "", mod |-> 0,
     rolls |-> <<>>, subtotal |-> 0, total |-> 0, msg |-> ""]

\* parse_and_roll(expr) when random.randint returns rolls[1], rolls[2], ...:
\* the locals at the raise or at the return.
parse_and_roll(expr, rolls) ==
    LET m     == ROLL_RE(expr)
        n     == int(m.n)
        sides == int(m.sides)
        op    == m.op
        mod   == IF m.mod # "" THEN int(m.mod) ELSE 0
    IN  IF ValueError(expr) # ""
        THEN [NoRoll EXCEPT !.error = ValueError(expr)]
        ELSE [error |-> "", n |-> n, sides |-> sides, op |-> op, mod |-> mod,
              rolls |-> rolls, subtotal |-> Sum(rolls),
              total |-> Total(Sum(rolls), op, mod),
              msg |-> Message(n, sides, op, mod, rolls)]

(***************************************************************************)
(* The outcomes of the sampler the model explores: for n dice of the given *)
(* sides, the sequences that repeat a pattern of at most MaxPeriod faces   *)
(* drawn from Faces(sides), and the forced samples of the documented       *)
(* scenarios.                                                              *)
(***************************************************************************)
MaxPeriod == 1

Faces(sides) == {v \in {1, 10, 100, sides} : v <= sides}

ForcedSamples == {<<5, 12, 20>>, <<1, 2, 3, 4, 5, 6>>}

Patterns(sides) ==
    UNION {[1..k -> Faces(sides)] : k \in 1..MaxPeriod}

\* [random.randint(1, sides) for _ in range(n)]
randint(n, sides) ==
    {[i \in 1..n |-> p[((i - 1) % Len(p)) + 1]] : p \in Patterns(sides)}
        \cup {s \in ForcedSamples :
                Len(s) = n /\ \A i \in 1..n : s[i] \in 1..sides}

\* The sampler's outcomes for expr; no sample is drawn when expr is refused.
RandomRolls(expr) ==
    IF ValueError(expr) # "" THEN {<<>>}
    ELSE randint(int(ROLL_RE(expr).n), int(ROLL_RE(expr).sides))


(***************************************************************************)
(* The splitter: the code shared, copy for copy, by roll_cmd, roll_slash   *)
(* and _send_roll_to_channel.                                              *)
(***************************************************************************)
\* The longest message sent whole: the "len(msg) <= 1900" of the senders.
LIMIT == 1900

chunk == 1700

\* header = msg.split(" Rolagem: ")[0]
header_part(msg) == SplitFirst(msg, " Rolagem: ")

\* msg[len(header):] for msg[len(header) + 1:]
left_from_space(msg) == SliceFrom(msg, Len(header_part(msg)))

\* left = msg[len(header) + 1:]
left(msg) == SliceFrom(msg, Len(header_part(msg)) + 1)

\* The try block raises (IndexError) iff left.split(" Resultado: ") has no [1].
SplitRaises(msg) == ~SplitHasSecond(left(msg), " Resultado: ")

\* An except branch that resets result_part alone: rolls_part keeps what
\* the first line of the try block gave it.
rolls_part_kept(msg) ==
    Remove(SplitFirst(left(msg), " Resultado: "), "Rolagem: ")

\* rolls_part after the try/except
rolls_part(msg) ==
    IF SplitRaises(msg) THEN ""
    ELSE Remove(SplitFirst(left(msg), " Resultado: "), "Rolagem: ")

\* result_part after the try/except
result_part(msg) ==
    IF SplitRaises(msg) THEN msg
    ELSE "Resultado: " \o SplitSecond(left(msg), " Resultado: ")

(***************************************************************************)
(* Requests.  A request is a sender (the prefix command, the slash         *)
(* command or the webhook), its expression and, for the webhook, the       *)
(* optional header message and the combine flag.                           *)
(***************************************************************************)
Req == {1, 2}

MaxExprLen == 3

Alphabet == {"0", "2", "d", "+", " ", "a"}

RECURSIVE StringsOfLen(_)
StringsOfLen(k) ==
    IF k = 0 THEN {""}
    ELSE {s \o a : s \in StringsOfLen(k - 1), a \in Alphabet}

EnumExprs == UNION {StringsOfLen(k) : k \in 0..MaxExprLen}

\* The expressions of the documented cases, and expressions whose message
\* is longer than LIMIT for some samples.
Examples ==
    {"3d20", "6d6 + 2", "3d6+0", "3 d 6", "0d1", "0d6", "501d6", "3d1",
     "3d1001", "abc", " 3D6 - 007 ", "1d2-999999", "0003d6", "12345d6",
     "3d123456", "3d6+1234567", "3d6\t-\t2\n", "1d2", "500d2",
     "500d1000", "500d100 - 999999"}

RECURSIVE Rep(_, _)
Rep(t, k) ==
    IF k = 0 THEN ""
    ELSE LET h == Rep(t, k \div 2)
         IN  h \o h \o (IF k % 2 = 1 THEN t ELSE "")

\* The webhook's "message": absent, short, and around the length limit.
Headers == {Rep("h", k) : k \in {0, 2, 1864, 1865, 1900, 1901}}

Request(kind, expression, message, combine) ==
    [kind |-> kind, expression |-> expression,
     message |-> message, combine |-> combine]

NoRequest == Request("", "", "", FALSE)

Requests ==
    {Request("cmd", e, "", FALSE) : e \in EnumExprs}
        \cup {Request(k, e, "", FALSE) : k \in {"cmd", "slash"}, e \in Examples}
        \cup {Request("webhook", e, h, c) :
                e \in Examples \cup {""}, h \in Headers, c \in BOOLEAN}

\* A request served after the first one has ended.
LaterRequests == {Request("cmd", "1d2", "", FALSE)}

\* The requests of the interleaved runs.
ConcRequests ==
    {Request("cmd", "500d10", "", FALSE),
     Request("cmd", "abc", "", FALSE),
     Request("slash", "500d10 - 999999", "", FALSE),
     Request("slash", "1d2", "", FALSE),
     Request("webhook", "500d10+0", "hh", FALSE),
     Request("webhook", "1d2", "hh", TRUE)}

VARIABLES
    req,          \* req[r]: the request in slot r, NoRequest before it arrives
    pc,           \* pc[r]: where the handler of request r stands
    roll,         \* roll[r]: what parse_and_roll left (NoRoll before it ran)
    text,         \* text[r]: the loop variable text of the splitter
    result,       \* result[r]: the local result_part of the splitter
    out,          \* the messages delivered to the channel, in order
    reply         \* reply[r]: the ephemeral or HTTP response to the requester

vars == <<req, pc, roll, text, result, out, reply>>

NoReply == [to |-> "", status |-> 0, text |-> ""]

Final == {"done", "failed"}

Init ==
    /\ req = [r \in Req |-> NoRequest]
    /\ pc = [r \in Req |-> "idle"]
    /\ roll = [r \in Req |-> NoRoll]
    /\ text = [r \in Req |-> ""]
    /\ result = [r \in Req |-> ""]
    /\ out = <<>>
    /\ reply = [r \in Req |-> NoReply]


(***************************************************************************)
(* Sending.  Every send is awaited and either delivers the message or      *)
(* raises (ok = FALSE): the exception leaves the handler, nothing is       *)
(* delivered and nothing after the send runs.                              *)
(***************************************************************************)
\* A send whose exception is swallowed: the handler goes on.
Send_swallowed(r, via, t, ok, next) ==
    /\ out' = IF ok THEN Append(out, [req |-> r, via |-> via, text |-> t])
                    ELSE out
    /\ pc' = [pc EXCEPT ![r] = next]

Send(r, via, t, ok, next) ==
    /\ out' = IF ok THEN Append(out, [req |-> r, via |-> via, text |-> t])
                    ELSE out
    /\ pc' = [pc EXCEPT ![r] = IF ok THEN next ELSE "failed"]

\* if len(msg) > 1900: send the header, split the rest; else send msg
SendMsg(r, via, ok) ==
    LET msg == roll[r].msg
    IN  IF Len(msg) > LIMIT
        THEN /\ Send(r, via, header_part(msg), ok, "loop")
             /\ text' = [text EXCEPT ![r] = IF ok THEN rolls_part(msg) ELSE @]
             /\ result' =
                    [result EXCEPT ![r] = IF ok THEN result_part(msg) ELSE @]
        ELSE /\ Send(r, via, msg, ok, "done")
             /\ UNCHANGED <<text, result>>

\* text as a module-level variable: the loop of one request consumes the
\* text of whichever request is in its loop.
SendChunk_shared(r, via, ok) ==
    \E q \in Req :
        /\ pc[q] = "loop" /\ text[q] # ""
        /\ Send(r, via, Slice(text[q], 0, chunk), ok, "loop")
        /\ text' = [text EXCEPT ![q] = IF ok THEN SliceFrom(@, chunk) ELSE @]
        /\ UNCHANGED result

\* while text: send(text[:chunk]); text = text[chunk:]
SendChunk(r, via, ok) ==
    /\ text[r] # ""
    /\ Send(r, via, Slice(text[r], 0, chunk), ok, "loop")
    /\ text' = [text EXCEPT ![r] = IF ok THEN SliceFrom(@, chunk) ELSE @]
    /\ UNCHANGED result

\* after the loop: send(result_part)
SendResult(r, via, ok) ==
    /\ text[r] = ""
    /\ Send(r, via, result[r], ok, "done")
    /\ UNCHANGED <<text, result>>

(***************************************************************************)
(* Arrival of requests.  Receive serves the requests one after the other;  *)
(* ReceiveAny lets the next request arrive while the others are running.   *)
(***************************************************************************)
Arrive(r, rq) ==
    /\ pc[r] = "idle"
    /\ req' = [req EXCEPT ![r] = rq]
    /\ pc' = [pc EXCEPT ![r] = "start"]
    /\ UNCHANGED <<roll, text, result, out, reply>>

Receive(r) ==
    /\ \A q \in Req : q < r => pc[q] \in Final
    /\ \E rq \in (IF r = 1 THEN Requests ELSE LaterRequests) : Arrive(r, rq)

ReceiveAny(r) ==
    /\ \A q \in Req : q < r => pc[q] # "idle"
    /\ \E rq \in ConcRequests : Arrive(r, rq)

(***************************************************************************)
(* roll_cmd                                                                *)
(***************************************************************************)
roll_cmd(r) ==
    /\ pc[r] = "start" /\ req[r].kind = "cmd"
    /\ \E rolls \in RandomRolls(req[r].expression) :
         LET res == parse_and_roll(req[r].expression, rolls)
         IN  /\ roll' = [roll EXCEPT ![r] = res]
             /\ IF res.error # ""
                THEN \E ok \in BOOLEAN : Send(r, "ctx", res.error, ok, "done")
                ELSE /\ pc' = [pc EXCEPT ![r] = "msg"]
                     /\ out' = out
    /\ UNCHANGED <<req, text, result, reply>>

roll_cmd_msg(r) ==
    /\ pc[r] = "msg" /\ req[r].kind = "cmd"
    /\ \E ok \in BOOLEAN : SendMsg(r, "ctx", ok)
    /\ UNCHANGED <<req, roll, reply>>

roll_cmd_chunk(r) ==
    /\ pc[r] = "loop" /\ req[r].kind = "cmd"
    /\ \E ok \in BOOLEAN : SendChunk(r, "ctx", ok)
    /\ UNCHANGED <<req, roll, reply>>

roll_cmd_result(r) ==
    /\ pc[r] = "loop" /\ req[r].kind = "cmd"
    /\ \E ok \in BOOLEAN : SendResult(r, "ctx", ok)
    /\ UNCHANGED <<req, roll, reply>>

(***************************************************************************)
(* roll_slash                                                              *)
(***************************************************************************)
Ephemeral(t) == [to |-> "ephemeral", status |-> 0, text |-> t]

roll_slash(r) ==
    /\ pc[r] = "start" /\ req[r].kind = "slash"
    /\ \E rolls \in RandomRolls(req[r].expression) :
         LET res == parse_and_roll(req[r].expression, rolls)
         IN  /\ roll' = [roll EXCEPT ![r] = res]
             /\ IF res.error # ""
                THEN \E ok \in BOOLEAN :
                       /\ pc' = [pc EXCEPT ![r] = IF ok THEN "done" ELSE "failed"]
                       /\ reply' = [reply EXCEPT
                                      ![r] = IF ok THEN Ephemeral(res.error) ELSE @]
                ELSE /\ pc' = [pc EXCEPT ![r] = "msg"]
                     /\ reply' = reply
    /\ UNCHANGED <<req, text, result, out>>

roll_slash_msg(r) ==
    /\ pc[r] = "msg" /\ req[r].kind = "slash"
    /\ \E ok \in BOOLEAN : SendMsg(r, "interaction.response", ok)
    /\ UNCHANGED <<req, roll, reply>>

roll_slash_chunk(r) ==
    /\ pc[r] = "loop" /\ req[r].kind = "slash"
    /\ \E ok \in BOOLEAN : SendChunk(r, "interaction.channel", ok)
    /\ UNCHANGED <<req, roll, reply>>

roll_slash_result(r) ==
    /\ pc[r] = "loop" /\ req[r].kind = "slash"
    /\ \E ok \in BOOLEAN : SendResult(r, "interaction.channel", ok)
    /\ UNCHANGED <<req, roll, reply>>

(***************************************************************************)
(* _handle_roll and _send_roll_to_channel                                  *)
(***************************************************************************)
Http(status, t) == [to |-> "http", status |-> status, text |-> t]

\* What the checks before the roll can answer, in the order they are made.
Refusals ==
    <<Http(400, "invalid json"), Http(401, "unauthorized"),
      Http(400, "channel_id and expression are required"),
      Http(400, "channel_id must be an integer"),
      Http(404, "channel not found or inaccessible")>>

\* The first check that refuses, 0 if none: check i refuses when the request
\* fails[i]; a request with no expression always fails the third.
FirstRefusal(expression, fails) ==
    LET F == {i \in fails \cup (IF expression = "" THEN {3} ELSE {}) : TRUE}
    IN  IF F = {} THEN 0 ELSE MinOf(F)

handle_roll(r) ==
    /\ pc[r] = "start" /\ req[r].kind = "webhook"
    /\ \E fails \in {{}, {1}, {2}, {3}, {4}, {5}} :
         LET i == FirstRefusal(req[r].expression, fails)
         IN  IF i = 0
             THEN /\ pc' = [pc EXCEPT ![r] = "resolved"]
                  /\ reply' = reply
             ELSE /\ pc' = [pc EXCEPT ![r] = "done"]
                  /\ reply' = [reply EXCEPT ![r] = Refusals[i]]
    /\ UNCHANGED <<req, roll, text, result, out>>

\* The header posted before the expression is validated.
handle_roll_parse_header_first(r) ==
    /\ pc[r] = "resolved" /\ req[r].kind = "webhook"
    /\ out' = IF req[r].message = "" THEN out
              ELSE Append(out, [req |-> r, via |-> "channel",
                                text |-> Slice(req[r].message, 0, LIMIT)])
    /\ \E rolls \in RandomRolls(req[r].expression) :
         LET res == parse_and_roll(req[r].expression, rolls)
         IN  /\ roll' = [roll EXCEPT ![r] = res]
             /\ IF res.error # ""
                THEN /\ pc' = [pc EXCEPT ![r] = "done"]
                     /\ reply' = [reply EXCEPT ![r] = Http(400, res.error)]
                ELSE /\ pc' = [pc EXCEPT ![r] = "msg"]
                     /\ reply' = reply
    /\ UNCHANGED <<req, text, result>>

handle_roll_parse(r) ==
    /\ pc[r] = "resolved" /\ req[r].kind = "webhook"
    /\ \E rolls \in RandomRolls(req[r].expression) :
         LET res == parse_and_roll(req[r].expression, rolls)
         IN  /\ roll' = [roll EXCEPT ![r] = res]
             /\ IF res.error # ""
                THEN /\ pc' = [pc EXCEPT ![r] = "done"]
                     /\ reply' = [reply EXCEPT ![r] = Http(400, res.error)]
                ELSE /\ pc' = [pc EXCEPT ![r] = "send"]
                     /\ reply' = reply
    /\ UNCHANGED <<req, text, result, out>>

\* _handle_roll's answer once _send_roll_to_channel returned or raised
Answer(r, ok) ==
    reply' = [reply EXCEPT
                ![r] = IF ~ok THEN Http(502, "discord error")
                       ELSE IF pc'[r] = "done" THEN Http(200, "")
                       ELSE @]

\* The header sent as it came, not cut to the limit.
send_roll_to_channel_uncut(r) ==
    /\ pc[r] = "send" /\ req[r].kind = "webhook"
    /\ \E ok \in BOOLEAN :
         LET header   == req[r].message
             combined == header \o "\n" \o roll[r].msg
         IN  /\ IF header # "" /\ req[r].combine /\ Len(combined) <= LIMIT
                THEN /\ Send(r, "channel", combined, ok, "done")
                     /\ UNCHANGED <<text, result>>
                ELSE IF header # ""
                THEN /\ Send(r, "channel", header, ok, "msg")
                     /\ UNCHANGED <<text, result>>
                ELSE SendMsg(r, "channel", ok)
             /\ Answer(r, ok)
    /\ UNCHANGED <<req, roll>>

send_roll_to_channel(r) ==
    /\ pc[r] = "send" /\ req[r].kind = "webhook"
    /\ \E ok \in BOOLEAN :
         LET header   == req[r].message
             combined == header \o "\n" \o roll[r].msg
         IN  /\ IF header # "" /\ req[r].combine
                THEN IF Len(combined) <= LIMIT
                     THEN /\ Send(r, "channel", combined, ok, "done")
                          /\ UNCHANGED <<text, result>>
                     ELSE /\ Send(r, "channel", Slice(header, 0, LIMIT), ok, "msg")
                          /\ UNCHANGED <<text, result>>
                ELSE IF header # ""
                THEN /\ Send(r, "channel",
                             IF Len(header) > LIMIT THEN Slice(header, 0, LIMIT)
                                                    ELSE header,
                             ok, "msg")
                     /\ UNCHANGED <<text, result>>
                ELSE SendMsg(r, "channel", ok)
             /\ Answer(r, ok)
    /\ UNCHANGED <<req, roll>>

send_roll_msg(r) ==
    /\ pc[r] = "msg" /\ req[r].kind = "webhook"
    /\ \E ok \in BOOLEAN : SendMsg(r, "channel", ok) /\ Answer(r, ok)
    /\ UNCHANGED <<req, roll>>

send_roll_chunk(r) ==
    /\ pc[r] = "loop" /\ req[r].kind = "webhook"
    /\ \E ok \in BOOLEAN : SendChunk(r, "channel", ok) /\ Answer(r, ok)
    /\ UNCHANGED <<req, roll>>

send_roll_result(r) ==
    /\ pc[r] = "loop" /\ req[r].kind = "webhook"
    /\ \E ok \in BOOLEAN : SendResult(r, "channel", ok) /\ Answer(r, ok)
    /\ UNCHANGED <<req, roll>>

(***************************************************************************)
(* Specifications                                                          *)
(***************************************************************************)
Handler(r) ==
    \/ roll_cmd(r) \/ roll_cmd_msg(r) \/ roll_cmd_chunk(r) \/ roll_cmd_result(r)
    \/ roll_slash(r) \/ roll_slash_msg(r) \/ roll_slash_chunk(r)
    \/ roll_slash_result(r)
    \/ handle_roll(r) \/ handle_roll_parse(r)
    \/ send_roll_to_channel(r) \/ send_roll_msg(r) \/ send_roll_chunk(r)
    \/ send_roll_result(r)

Next == \E r \in Req : Receive(r) \/ Handler(r)

\* Requests served one after the other.
Spec == Init /\ [][Next]_vars

NextConc == \E r \in Req : ReceiveAny(r) \/ Handler(r)

\* Requests arriving while others are running.
SpecConc == Init /\ [][NextConc]_vars

Loop(r) ==
    \/ roll_cmd_chunk(r) \/ roll_cmd_result(r)
    \/ roll_slash_chunk(r) \/ roll_slash_result(r)
    \/ send_roll_chunk(r) \/ send_roll_result(r)

\* The event loop resumes a handler once the send it awaits has completed.
FairSpec == Spec /\ \A r \in Req : WF_vars(Loop(r))

(***************************************************************************)
(* The splitter as a function of the message handed to it: each sender's   *)
(* splitting code started on a message longer than LIMIT that             *)
(* parse_and_roll need not have built.                                     *)
(***************************************************************************)
SplitMessages ==
    {Rep("x", 1901),
     "H Rolagem: " \o Rep("x", 2000),
     Rep("x", 2000) \o " Resultado: 5",
     "H Resultado: 1 Rolagem: " \o Rep("x", 2000),
     "H Rolagem: " \o Rep("7, ", 700) \o " Resultado: 5",
     "H Rolagem: " \o Rep("x", 1700) \o " Resultado: 5" \o Rep(" ", 200),
     "H Rolagem: " \o Rep("x", 3400) \o " Resultado: 5",
     "H Rolagem: " \o Rep("x", 4979) \o " Resultado: 5",
     "Rolagem: " \o Rep("x", 2000) \o " Resultado: 5"}

SplitRequests ==
    {Request(k, "", "", FALSE) : k \in {"cmd", "slash"}}
        \cup {Request("webhook", "", h, c) :
                h \in {"", "hh", Rep("h", 1901)}, c \in BOOLEAN}

InitSplit ==
    /\ \E rq \in SplitRequests :
         /\ req = [r \in Req |-> IF r = 1 THEN rq ELSE NoRequest]
         /\ pc = [r \in Req |-> IF r # 1 THEN "idle"
                                ELSE IF rq.kind = "webhook" THEN "send"
                                ELSE "msg"]
    /\ \E m \in SplitMessages :
         roll = [r \in Req |-> IF r = 1 THEN [NoRoll EXCEPT !.msg = m]
                                        ELSE NoRoll]
    /\ text = [r \in Req |-> ""]
    /\ result = [r \in Req |-> ""]
    /\ out = <<>>
    /\ reply = [r \in Req |-> NoReply]

Splitter(r) ==
    \/ roll_cmd_msg(r) \/ roll_cmd_chunk(r) \/ roll_cmd_result(r)
    \/ roll_slash_msg(r) \/ roll_slash_chunk(r) \/ roll_slash_result(r)
    \/ send_roll_to_channel(r) \/ send_roll_msg(r) \/ send_roll_chunk(r)
    \/ send_roll_result(r)

NextSplit == \E r \in Req : Splitter(r)

SpecSplit == InitSplit /\ [][NextSplit]_vars

(***************************************************************************)
(* What the claims speak of                                                *)
(***************************************************************************)
\* The texts delivered for request r, in the order of delivery.
Sent(r) ==
    LET Mine(e) == e.req = r
        mine    == SelectSeq(out, Mine)
    IN  [i \in 1..Len(mine) |-> mine[i].text]

IsPrefix(s, t) == Len(s) <= Len(t) /\ \A i \in 1..Len(s) : s[i] = t[i]

\* parse_and_roll has run for request r
Parsed(r) == roll[r] # NoRoll

\* parse_and_roll returned a message for request r
Rolled(r) == Parsed(r) /\ roll[r].error = ""

\* The request in slot r and what was made of it.
Expr(r) == req[r].expression

(***************************************************************************)
(* The rendering the specification describes, written from its words:      *)
(* decimal numerals without leading zeros, the list joined by ", ".        *)
(***************************************************************************)
RECURSIVE DecimalFrom(_, _)
DecimalFrom(i, j) ==
    IF j < 0 THEN ""
    ELSE Ch(Digits, ((i \div (10 ^ j)) % 10) + 1) \o DecimalFrom(i, j - 1)

Decimal(i) ==
    LET k == CHOOSE k \in 1..8 : i < 10 ^ k /\ (k = 1 \/ i >= 10 ^ (k - 1))
    IN  DecimalFrom(i, k - 1)

Signed(i) == IF i < 0 THEN "-" \o Decimal(-i) ELSE Decimal(i)

RECURSIVE ListFold(_, _, _)
ListFold(xs, lo, hi) ==
    IF hi < lo THEN ""
    ELSE IF hi = lo THEN Decimal(xs[lo])
    ELSE ListFold(xs, lo, hi - 1) \o ", " \o Decimal(xs[hi])

RECURSIVE ListBlocks(_, _)
ListBlocks(xs, b) ==
    IF b = 0 THEN ""
    ELSE ListBlocks(xs, b - 1) \o (IF b > 1 THEN ", " ELSE "")
            \o ListFold(xs, 25 * (b - 1) + 1,
                        IF 25 * b < Len(xs) THEN 25 * b ELSE Len(xs))

List(xs) == ListBlocks(xs, (Len(xs) + 24) \div 25)

SpecSegment(ro) ==
    BQ \o "[" \o Decimal(ro.n) \o "d" \o Decimal(ro.sides)
        \o (IF ro.op # "" /\ ro.mod # 0
            THEN " " \o ro.op \o " " \o Decimal(ro.mod) ELSE "")
        \o "]" \o BQ

RollsSegment(ro) == BQ \o "[" \o List(ro.rolls) \o "]" \o BQ

ResultSegment(ro) == "Resultado: " \o Signed(ro.total)

RECURSIVE Concat(_)
Concat(ss) == IF Len(ss) = 0 THEN "" ELSE Head(ss) \o Concat(Tail(ss))

(***************************************************************************)
(* C1.  A message longer than 1900 characters built from a valid           *)
(* expression is emitted by each sender (the webhook without header) as    *)
(* the spec segment alone, then k >= 1 non-empty chunks of at most 1700    *)
(* characters, all but the last of exactly 1700, whose concatenation is    *)
(* the rolls segment, then "Resultado: <total>"; and the emission loop     *)
(* terminates.                                                             *)
(***************************************************************************)
C1_Case(r) ==
    /\ Rolled(r) /\ Len(roll[r].msg) > 1900
    /\ req[r].message = ""
    /\ pc[r] = "done"

C1_Emission(r) ==
    LET s == Sent(r)
        k == Len(s) - 2
    IN  /\ k >= 1
        /\ s[1] = SpecSegment(roll[r])
        /\ \A i \in 2..(k + 1) :
             /\ s[i] # "" /\ Len(s[i]) <= 1700
             /\ i < k + 1 => Len(s[i]) = 1700
        /\ Concat(SubSeq(s, 2, k + 1)) = RollsSegment(roll[r])
        /\ s[k + 2] = ResultSegment(roll[r])

C1_Split ==
    /\ [](\A r \in Req : C1_Case(r) => C1_Emission(r))
    /\ \A r \in Req : (pc[r] = "loop") ~> (pc[r] \in Final)

C1_Witness ==
    \E r \in Req : C1_Case(r) /\ req[r].kind = "slash" /\ Len(Sent(r)) = 4

(***************************************************************************)
(* C2.  For a valid expression parse_and_roll produces exactly count       *)
(* rolls, each in [1, sides], and total = sum(rolls) + modifier for "+",   *)
(* sum(rolls) - modifier for "-", sum(rolls) with no operator; the         *)
(* operator is absent iff no modifier was supplied.                        *)
(***************************************************************************)
\* The sum of xs, face by face.
RECURSIVE FaceSum(_, _)
FaceSum(xs, faces) ==
    IF faces = {} THEN 0
    ELSE LET v == CHOOSE v \in faces : TRUE
         IN  v * Cardinality({i \in DOMAIN xs : xs[i] = v})
                + FaceSum(xs, faces \ {v})

SumOf(xs) == FaceSum(xs, {xs[i] : i \in DOMAIN xs})

\* A sign, and so a modifier, stands in the expression.
ModifierSupplied(e) == \E i \in 1..Len(e) : Ch(e, i) \in {"+", "-"}

C2_Roll(r) ==
    LET ro == roll[r]
    IN  /\ ro.n \in 1..500 /\ ro.sides \in 2..1000 /\ ro.mod \in 0..999999
        /\ Len(ro.rolls) = ro.n
        /\ \A i \in 1..Len(ro.rolls) : ro.rolls[i] \in 1..ro.sides
        /\ ro.subtotal = SumOf(ro.rolls)
        /\ ro.op \in {"", "+", "-"}
        /\ ro.op = "+" => ro.total = SumOf(ro.rolls) + ro.mod
        /\ ro.op = "-" => ro.total = SumOf(ro.rolls) - ro.mod
        /\ ro.op = "" => ro.total = SumOf(ro.rolls)
        /\ ro.op = "" <=> ~ModifierSupplied(Expr(r))

C2_RollResult == \A r \in Req : Rolled(r) => C2_Roll(r)

C2_Witness ==
    \E r \in Req :
        /\ Rolled(r) /\ pc[r] = "done" /\ roll[r].n = 500
        /\ roll[r].op = "-" /\ roll[r].total < 0

(***************************************************************************)
(* C3.  Parsing classifies every input into exactly one outcome:           *)
(* MalformedExpression if the string is not of the full-string grammar     *)
(* (count of 1-4 digits, d or D, sides of 1-5 digits, optional sign and    *)
(* modifier of 1-6 digits, optional white space around), otherwise         *)
(* CountOutOfRange if count < 1 or count > 500, otherwise SidesOutOfRange  *)
(* if sides < 2 or sides > 1000, otherwise success.                        *)
(***************************************************************************)
AllSpace(s, a, b) == \A i \in a..b : IsSpace(Ch(s, i))

AllDigits(s, a, b) == \A i \in a..b : IsDigit(Ch(s, i))

MinNum(a, b) == IF a < b THEN a ELSE b

\* What may follow the sides, which end at c: white space to the end, or
\* white space, a sign, white space, 1-6 digits and white space to the end.
GrammarTail(s, c) ==
    LET L == Len(s)
    IN  \/ AllSpace(s, c + 1, L)
        \/ \E e \in c..(L - 1) :
             /\ AllSpace(s, c + 1, e)
             /\ Ch(s, e + 1) \in {"+", "-"}
             /\ \E f \in (e + 1)..(L - 1) :
                  /\ AllSpace(s, e + 2, f)
                  /\ \E g \in (f + 1)..MinNum(f + 6, L) :
                       AllDigits(s, f + 1, g) /\ AllSpace(s, g + 1, L)

\* Every way to read s by the grammar, as <<count digits, sides digits>>.
GrammarParses(s) ==
    LET L == Len(s)
        Sides(b) == {c \in (b + 2)..MinNum(b + 6, L) :
                        AllDigits(s, b + 2, c) /\ GrammarTail(s, c)}
        Counts(a) == {b \in (a + 1)..MinNum(a + 4, L - 1) :
                        AllDigits(s, a + 1, b) /\ Ch(s, b + 1) \in {"d", "D"}}
    IN  UNION {UNION {{<<SubSeq(s, a + 1, b), SubSeq(s, b + 2, c)>> :
                            c \in Sides(b)} : b \in Counts(a)} :
                  a \in {a \in 0..L : AllSpace(s, 1, a)}}

\* The number a string of digits denotes.
ValueOf(d) ==
    Sum([i \in 1..Len(d) |-> DigitValue(Ch(d, i)) * (10 ^ (Len(d) - i))])

Classify(s) ==
    LET P == GrammarParses(s)
    IN  IF P = {} THEN "MalformedExpression"
        ELSE IF \E p \in P : ValueOf(p[1]) < 1 \/ ValueOf(p[1]) > 500
        THEN "CountOutOfRange"
        ELSE IF \E p \in P : ValueOf(p[2]) < 2 \/ ValueOf(p[2]) > 1000
        THEN "SidesOutOfRange"
        ELSE "success"

\* The outcome parse_and_roll had for request r.
Outcome(r) ==
    IF roll[r].error = "" THEN "success"
    ELSE IF roll[r].error = ErrFormat THEN "MalformedExpression"
    ELSE IF roll[r].error = ErrDice THEN "CountOutOfRange"
    ELSE IF roll[r].error = ErrSides THEN "SidesOutOfRange"
    ELSE "other"

C3_Cases ==
    <<<<"0d1", "CountOutOfRange">>, <<"0d6", "CountOutOfRange">>,
      <<"501d6", "CountOutOfRange">>, <<"3d1", "SidesOutOfRange">>,
      <<"3d1001", "SidesOutOfRange">>, <<"abc", "MalformedExpression">>>>

C3_Classification ==
    \A r \in Req :
        Parsed(r) =>
            /\ Outcome(r) = Classify(Expr(r))
            /\ \A i \in 1..Len(C3_Cases) :
                 Expr(r) = C3_Cases[i][1] => Outcome(r) = C3_Cases[i][2]

C3_Witness ==
    \E r \in Req : Parsed(r) /\ Expr(r) = "0d1" /\ roll[r].error = ErrDice

(***************************************************************************)
(* C4.  As claimed: "3 d 6", with white space between the count, the d    *)
(* and the sides, is a valid parse of count 3 and sides 6.                 *)
(***************************************************************************)
C4_Original ==
    \A r \in Req :
        Parsed(r) /\ Expr(r) = "3 d 6" =>
            roll[r].error = "" /\ roll[r].n = 3 /\ roll[r].sides = 6

\* White space stands right before or right after a d or D of the string.
SpaceAtSeparator(s) ==
    \E i \in 1..Len(s) :
        /\ Ch(s, i) \in {"d", "D"}
        /\ \/ i > 1 /\ IsSpace(Ch(s, i - 1))
           \/ i < Len(s) /\ IsSpace(Ch(s, i + 1))

(***************************************************************************)
(* C4, amended.  "3 d 6" is not a valid parse: parse_and_roll refuses it,  *)
(* as it refuses every expression with white space next to the d, with     *)
(* MalformedExpression, and rolls nothing.                                 *)
(***************************************************************************)
C4_Amended ==
    \A r \in Req :
        Parsed(r) /\ (Expr(r) = "3 d 6" \/ SpaceAtSeparator(Expr(r))) =>
            roll[r].error = ErrFormat /\ roll[r].rolls = <<>>

C4_Witness ==
    \E r \in Req : Parsed(r) /\ Expr(r) = "3 d 6" /\ pc[r] = "done"

(***************************************************************************)
(* C5.  The message of a valid expression is exactly                       *)
(* `[<spec>]` Rolagem: `[<r1>, ..., <rN>]` Resultado: <total>, the rolls   *)
(* in sampled order, <spec> being <count>d<sides> in decimal without       *)
(* leading zeros, followed by " <sign> <modifier>" iff an operator was     *)
(* parsed and the modifier is not zero.                                    *)
(***************************************************************************)
C5_Message(ro) ==
    SpecSegment(ro) \o " Rolagem: " \o RollsSegment(ro)
        \o " Resultado: " \o Signed(ro.total)

C5_Format ==
    \A r \in Req :
        Rolled(r) =>
            /\ roll[r].msg = C5_Message(roll[r])
            /\ Expr(r) = "3d6+0" =>
                 SplitFirst(roll[r].msg, " ") = "'[3d6]'"
            /\ Expr(r) = "0003d6" =>
                 SplitFirst(roll[r].msg, " ") = "'[3d6]'"
            /\ Expr(r) = "3d20" /\ roll[r].rolls = <<5, 12, 20>> =>
                 roll[r].msg = "'[3d20]' Rolagem: '[5, 12, 20]' Resultado: 37"
            /\ Expr(r) = "6d6 + 2" /\ roll[r].rolls = <<1, 2, 3, 4, 5, 6>> =>
                 roll[r].msg
                    = "'[6d6 + 2]' Rolagem: '[1, 2, 3, 4, 5, 6]' Resultado: 23"

C5_Witness ==
    \E r \in Req :
        /\ Rolled(r) /\ Expr(r) = "6d6 + 2"
        /\ roll[r].rolls = <<1, 2, 3, 4, 5, 6>>

(***************************************************************************)
(* The sequence of messages a request is to deliver, written from the      *)
(* specification: the webhook's header (cut to 1900), or header and roll   *)
(* joined when they fit in 1900; then the roll message whole if it fits    *)
(* in 1900, else the spec segment, the rolls segment in slices of 1700,    *)
(* and the result.                                                         *)
(***************************************************************************)
Slices(s) ==
    [i \in 1..((Len(s) + 1699) \div 1700) |->
        Slice(s, 1700 * (i - 1), 1700 * i)]

RollPlan(ro) ==
    LET rolls == RollsSegment(ro)
        whole == SpecSegment(ro) \o " Rolagem: " \o rolls
                    \o " " \o ResultSegment(ro)
    IN  IF Len(whole) <= 1900 THEN <<whole>>
        ELSE <<SpecSegment(ro)>> \o Slices(rolls) \o <<ResultSegment(ro)>>

HeaderPlan(rq) ==
    IF rq.message = "" THEN <<>> ELSE <<Slice(rq.message, 0, 1900)>>

Plan(r) ==
    LET plan   == RollPlan(roll[r])
        joined == req[r].message \o "\n" \o plan[1]
    IN  IF /\ req[r].message # "" /\ req[r].combine
           /\ Len(plan) = 1 /\ Len(joined) <= 1900
        THEN <<joined>>
        ELSE HeaderPlan(req[r]) \o plan

(***************************************************************************)
(* C6.  In a multi-message split the messages delivered are always a       *)
(* prefix of the planned sequence; a failed transmission ends the          *)
(* request, nothing is sent after it, nothing sent is sent again or taken  *)
(* back; without a failure all parts are sent.                             *)
(***************************************************************************)
C6_Case(r) == Rolled(r) /\ Len(roll[r].msg) > 1900

C6_State ==
    \A r \in Req :
        C6_Case(r) =>
            LET plan == Plan(r)
                sent == Sent(r)
            IN  /\ IsPrefix(sent, plan)
                /\ pc[r] = "done" => sent = plan
                /\ pc[r] = "failed" => Len(sent) < Len(plan)
                /\ pc[r] = "failed" /\ req[r].kind = "webhook" =>
                     reply[r].status = 502

C6_Step ==
    \A r \in Req :
        /\ IsPrefix(Sent(r), Sent(r)')
        /\ pc[r] = "failed" => pc'[r] = "failed" /\ Sent(r)' = Sent(r)

C6_Prefix == []C6_State /\ [][C6_Step]_vars

C6_Witness ==
    \E r \in Req :
        /\ C6_Case(r) /\ pc[r] = "failed" /\ Len(Sent(r)) = 2
        /\ req[r].kind = "webhook" /\ req[r].message = ""

(***************************************************************************)
(* C7.  With the sends of several requests interleaved, each request's     *)
(* segments reach the channel in its own order, none lost, doubled or      *)
(* altered, and they are those of its own expression and rolls.            *)
(***************************************************************************)
C7_OwnPlan(r) ==
    IF Rolled(r) THEN Plan(r)
    ELSE IF Parsed(r) /\ req[r].kind = "cmd" THEN <<roll[r].error>>
    ELSE <<>>

C7_State ==
    \A r \in Req :
        LET plan == C7_OwnPlan(r)
            sent == Sent(r)
        IN  /\ IsPrefix(sent, plan)
            /\ pc[r] = "done" => sent = plan

C7_Step ==
    \A r \in Req :
        /\ IsPrefix(Sent(r), Sent(r)')
        /\ Parsed(r) => roll'[r] = roll[r] /\ req'[r] = req[r]

C7_Interleaving == []C7_State /\ [][C7_Step]_vars

C7_Witness ==
    /\ \A r \in Req : pc[r] = "done" /\ Rolled(r) /\ Len(roll[r].msg) > 1900
    /\ \E i, j, k \in 1..Len(out) :
         i < j /\ j < k /\ out[i].req = out[k].req /\ out[i].req # out[j].req

(***************************************************************************)
(* C8.  On a message longer than 1900 characters in which " Rolagem: " or  *)
(* " Resultado: " is not found the splitter falls back: no chunk is        *)
(* emitted and the whole message is emitted as the result segment.         *)
(***************************************************************************)
C8_Case(r) ==
    /\ Len(roll[r].msg) > 1900
    /\ \/ Find(roll[r].msg, " Rolagem: ") = 0
       \/ Find(roll[r].msg, " Resultado: ") = 0

C8_Fallback ==
    \A r \in Req :
        C8_Case(r) =>
            LET s == Sent(r)
                h == Len(HeaderPlan(req[r]))
            IN  /\ Len(s) <= h + 2
                /\ pc[r] = "loop" =>
                     Len(s) = h + 1 /\ text[r] = "" /\ result[r] = roll[r].msg
                /\ pc[r] = "done" => Len(s) = h + 2 /\ s[h + 2] = roll[r].msg
                /\ pc[r] = "failed" => Len(s) < h + 2

C8_Witness ==
    \E r \in Req :
        /\ C8_Case(r) /\ pc[r] = "done"
        /\ Find(roll[r].msg, " Rolagem: ") # 0

(***************************************************************************)
(* C9.  A refused expression ends the request with one error response      *)
(* that carries the error's message to the requester: a channel message    *)
(* for the prefix command, an ephemeral response for the slash command, a  *)
(* 400 for the webhook.  No dice are sampled, no roll segment and no       *)
(* webhook header reaches the channel, the request is not tried again,     *)
(* and later requests are served.                                          *)
(***************************************************************************)
Refused(r) == Parsed(r) /\ roll[r].error # ""

C9_State ==
    \A r \in Req :
        Refused(r) =>
            /\ roll[r].error \in {ErrFormat, ErrDice, ErrSides}
            /\ roll[r].rolls = <<>>
            /\ pc[r] \in Final
            /\ req[r].kind = "cmd" =>
                 /\ reply[r] = NoReply
                 /\ Sent(r) = IF pc[r] = "done" THEN <<roll[r].error>> ELSE <<>>
            /\ req[r].kind = "slash" =>
                 /\ Sent(r) = <<>>
                 /\ reply[r] =
                      IF pc[r] = "done"
                      THEN [to |-> "ephemeral", status |-> 0,
                            text |-> roll[r].error]
                      ELSE NoReply
            /\ req[r].kind = "webhook" =>
                 /\ Sent(r) = <<>>
                 /\ pc[r] = "done"
                 /\ reply[r] =
                      [to |-> "http", status |-> 400, text |-> roll[r].error]
            /\ \A q \in Req \ {r} :
                 /\ pc[q] = "idle" => ENABLED Receive(q)
                 /\ Rolled(q) /\ pc[q] = "done" => Sent(q) = Plan(q)

C9_Step ==
    \A r \in Req :
        Refused(r) =>
            /\ req'[r] = req[r] /\ pc'[r] = pc[r] /\ roll'[r] = roll[r]
            /\ reply'[r] = reply[r] /\ Sent(r)' = Sent(r)

C9_Refusal == []C9_State /\ [][C9_Step]_vars

C9_Witness ==
    \E r, q \in Req :
        /\ Refused(r) /\ req[r].kind = "webhook" /\ req[r].message # ""
        /\ roll[r].error = ErrSides
        /\ Rolled(q) /\ pc[q] = "done" /\ Len(Sent(q)) = 1

(***************************************************************************)
(* C10.  Every message delivered for a roll request is of at most 1900     *)
(* characters, for every sender, every header and either value of          *)
(* combine, and the messages are those of the plan.                        *)
(***************************************************************************)
C10_Length ==
    /\ \A i \in 1..Len(out) : Len(out[i].text) <= 1900
    /\ \A r \in Req : Rolled(r) => IsPrefix(Sent(r), Plan(r))

C10_Witness ==
    \E r \in Req :
        /\ Rolled(r) /\ pc[r] = "done" /\ Len(roll[r].msg) > 1900
        /\ Len(req[r].message) > 1900 /\ req[r].combine
        /\ Len(Sent(r)) = 5 /\ Len(Sent(r)[1]) = 1900

=============================================================================
